---- MODULE Spec2Model ----
(***************************************************************************)
(* Verification model of adelinocpp/postgraduate_schedules.                *)
(*                                                                         *)
(*   SpecCalendar : CalendarReader._extract_letive_days and the holiday    *)
(*                  tables of HolidayManager                               *)
(*   SpecPipeline : ScheduleManagementSystem.generate_schedules /          *)
(*                  update_and_notify around ScheduleManager.process       *)
(*   SpecAlias    : the pipeline plus a caller that changes the slots list *)
(*                  of a schedule it was handed                            *)
(*   SpecValidate : ConflictValidator.validate_schedule and                *)
(*                  CalendarValidator.validate called on their own         *)
(*   SpecVersions : one VersionManager, create_schedule_version            *)
(*   SpecVersionQueries : one VersionManager, create_schedule_version,     *)
(*                  get_latest_version and compare_versions                *)
(*   SpecCatalog  : one DisciplineAnalyzer on one catalog file, and the    *)
(*                  generators called on what it loaded                    *)
(*   SpecHolidays : one CalendarWithHolidays, generate_calendar,           *)
(*                  get_working_days and get_non_working_days              *)
(*   SpecHolidayFile : the constructor of HolidayManager on a holidays     *)
(*                  file                                                   *)
(*   SpecBot      : one WhatsAppBot, its contacts and its send calls       *)
(***************************************************************************)
EXTENDS Integers, Sequences, FiniteSets, TLC

VARIABLES
    current_date,   \* _extract_letive_days: loop variable
    letive_days,    \* _extract_letive_days: list built so far
    extract_pc,     \* _extract_letive_days: "loop" | "done"
    fs,             \* files on disk: calendar CSV, one catalog CSV per course
    env,            \* ODF_AVAILABLE, API_KEYS_LOADED, output dir, libreoffice
    clock,          \* last value handed out by datetime.now()
    runs,           \* results returned by generate_schedules, oldest first
    crashed,        \* an exception left generate_schedules (main has no handler)
    heap,           \* the list objects ScheduleGenerator.WEEKLY_SLOTS / BIWEEKLY_SLOTS
    last_mutator,   \* run whose caller changed a slots list last (0: nobody)
    val_in,         \* argument of the last validator call
    val_out,        \* report returned by the last validator call
    versions,       \* VersionManager.versions
    ver_query,      \* the version query being answered: its arguments and result
    analyzer,       \* DisciplineAnalyzer: its fields and what its calls returned
    gen_out,        \* the last direct generator call: arguments and schedule
    contacts,       \* WhatsAppBot.contacts: the phones, in insertion order
    sent_messages,  \* WhatsAppBot.sent_messages
    bot_call,       \* the last send_* call: its arguments and where its messages start
    added_groups,   \* the add_group calls made so far: group name -> member phones
    cal_year,       \* CalendarWithHolidays.year
    calendar,       \* CalendarWithHolidays.calendar: the entries, in insertion order
    hol_call,       \* the last get_working_days call: the period asked for
    hol_out,        \* the list the last get_working_days / get_non_working_days call returned
    holidays_file,  \* HolidayManager.holidays_file: None or the file it names
    holidays,       \* HolidayManager.holidays: 'DD/MM' -> description
    optional_holidays, \* HolidayManager.optional_holidays: 'DD/MM' -> description
    hm_loaded       \* load_holidays() has run (the constructor has returned)

calVars == <<current_date, letive_days, extract_pc>>
pipeVars == <<fs, env, clock, runs, crashed, heap, last_mutator>>
valVars == <<val_in, val_out>>
verVars == <<versions, ver_query>>
catVars == <<analyzer, gen_out>>
botVars == <<contacts, sent_messages, bot_call, added_groups>>
hmVars == <<holidays_file, holidays, optional_holidays, hm_loaded>>
holVars == <<cal_year, calendar, hol_call, hol_out, hmVars>>
vars == <<current_date, letive_days, extract_pc, fs, env, clock, runs, crashed,
          heap, last_mutator, val_in, val_out, versions, ver_query, analyzer,
          gen_out,
          contacts, sent_messages, bot_call, added_groups, cal_year, calendar,
          hol_call, hol_out, holidays_file, holidays, optional_holidays,
          hm_loaded>>

(***************************************************************************)
(* Dates: datetime as used by _extract_letive_days (proleptic Gregorian    *)
(* ordinal, weekday() with Monday = 0).                                    *)
(***************************************************************************)
Date(y, m, d) == [year |-> y, month |-> m, day |-> d]

IsLeap(y) == (y % 4 = 0) /\ ((y % 100 # 0) \/ (y % 400 = 0))

DaysInMonth(y, m) ==
    IF m = 2 THEN (IF IsLeap(y) THEN 29 ELSE 28)
    ELSE IF m \in {4, 6, 9, 11} THEN 30 ELSE 31

RECURSIVE DaysBeforeMonth(_, _)
DaysBeforeMonth(y, m) ==
    IF m = 1 THEN 0 ELSE DaysBeforeMonth(y, m - 1) + DaysInMonth(y, m - 1)

DaysBeforeYear(y) ==
    (y - 1) * 365 + ((y - 1) \div 4) - ((y - 1) \div 100) + ((y - 1) \div 400)

Ordinal(dt) == DaysBeforeYear(dt.year) + DaysBeforeMonth(dt.year, dt.month) + dt.day

\* datetime.weekday(): Monday = 0 ... Sunday = 6
Weekday(dt) == (Ordinal(dt) + 6) % 7

\* current_date += timedelta(days=1)
NextDay(dt) ==
    IF dt.day < DaysInMonth(dt.year, dt.month) THEN Date(dt.year, dt.month, dt.day + 1)
    ELSE IF dt.month < 12 THEN Date(dt.year, dt.month + 1, 1)
    ELSE Date(dt.year + 1, 1, 1)

DateLeq(a, b) == Ordinal(a) <= Ordinal(b)

\* f"{n:02d}"
TwoDigits(n) == IF n < 10 THEN "0" \o ToString(n) ELSE ToString(n)

\* date.strftime('%d/%m')
DateKey(dt) == TwoDigits(dt.day) \o "/" \o TwoDigits(dt.month)

(***************************************************************************)
(* Python values.  A dict key that may be missing, or a value that may be  *)
(* None, is a sequence of length 0 or 1.                                   *)
(***************************************************************************)
Absent == <<>>

Some(v) == <<v>>

IsPresent(o) == Len(o) = 1

Get(o) == o[1]

(***************************************************************************)
(* HolidayManager: the built-in tables and the two membership tests.       *)
(***************************************************************************)
\* the dict a freshly constructed manager holds before load_holidays runs
EmptyTable == [k \in {} |-> ""]

DefaultHolidays ==
    ("01/01" :> "Confraternizacao Universal") @@ ("03/04" :> "Sexta-feira Santa")
    @@ ("21/04" :> "Tiradentes") @@ ("01/05" :> "Dia Mundial do Trabalho")
    @@ ("07/09" :> "Independencia do Brasil") @@ ("12/10" :> "Nossa Senhora Aparecida")
    @@ ("02/11" :> "Finados") @@ ("15/11" :> "Proclamacao da Republica")
    @@ ("20/11" :> "Dia da Consciencia Negra") @@ ("25/12" :> "Natal")

DefaultOptionalHolidays ==
    ("02/01" :> "Ponto Facultativo") @@ ("16/02" :> "Carnaval")
    @@ ("17/02" :> "Carnaval") @@ ("18/02" :> "Quarta-feira de Cinzas")
    @@ ("02/04" :> "Quinta-feira Santa") @@ ("20/04" :> "Ponto Facultativo")
    @@ ("04/06" :> "Corpus Christi") @@ ("05/06" :> "Ponto Facultativo")
    @@ ("15/08" :> "Assuncao de Nossa Senhora") @@ ("30/10" :> "Dia do Servidor Publico")
    @@ ("07/12" :> "Imaculada Conceicao") @@ ("08/12" :> "Imaculada Conceicao")
    @@ ("24/12" :> "Ponto Facultativo") @@ ("31/12" :> "Ponto Facultativo")

\* _load_default_holidays: both dicts are assigned anew
_load_default_holidays ==
    [holidays |-> DefaultHolidays, optional_holidays |-> DefaultOptionalHolidays]

\* A line of the holidays file is kept as the parts the two regular
\* expressions and the 'ponto facultativo' test look at:
\*   text "date":  the line starts with "<day> de <month_name>"; tipo is the
\*                 text in parentheses and description the text between the
\*                 comma and the parenthesis (Absent: the line has none)
\*   text "other": the line does not start with a day and a month
\*   text "blank": line.strip() is empty
DateLine(day, month_name, description, tipo) ==
    [text |-> "date", day |-> day, month_name |-> month_name,
     description |-> description, tipo |-> tipo]

OtherLine == [text |-> "other"]

BlankLine == [text |-> "blank"]

\* str.lower() on the words that occur in the lines
Lower(str) ==
    CASE str = "Abril" -> "abril"
      [] str = "Ponto Facultativo" -> "ponto facultativo"
      [] OTHER -> str

\* the months dict of _parse_holiday_line
months ==
    ("janeiro" :> 1) @@ ("fevereiro" :> 2) @@ ("marco" :> 3) @@ ("abril" :> 4)
    @@ ("maio" :> 5) @@ ("junho" :> 6) @@ ("julho" :> 7) @@ ("agosto" :> 8)
    @@ ("setembro" :> 9) @@ ("outubro" :> 10) @@ ("novembro" :> 11)
    @@ ("dezembro" :> 12)

\* a parser that starts both tables over when it meets a month it does not know
_parse_holiday_line_reset(tables, line) ==
    IF line.text # "date" THEN tables
    ELSE IF Lower(line.month_name) \notin DOMAIN months
    THEN [holidays |-> EmptyTable, optional_holidays |-> EmptyTable]
    ELSE LET month == months[Lower(line.month_name)]
             is_optional == Lower(line.tipo) = "ponto facultativo"
             description == IF IsPresent(line.description)
                            THEN Get(line.description) ELSE "Feriado"
             date_key == TwoDigits(line.day) \o "/" \o TwoDigits(month)
         IN  IF is_optional
             THEN [tables EXCEPT !.optional_holidays = (date_key :> description) @@ @]
             ELSE [tables EXCEPT !.holidays = (date_key :> description) @@ @]

\* _parse_holiday_line on the two dicts: returns the dicts it leaves
_parse_holiday_line(tables, line) ==
    IF line.text # "date" THEN tables
    ELSE IF Lower(line.month_name) \notin DOMAIN months THEN tables
    ELSE LET month == months[Lower(line.month_name)]
             is_optional == Lower(line.tipo) = "ponto facultativo"
             description == IF IsPresent(line.description)
                            THEN Get(line.description) ELSE "Feriado"
             date_key == TwoDigits(line.day) \o "/" \o TwoDigits(month)
         IN  IF is_optional
             THEN [tables EXCEPT !.optional_holidays = (date_key :> description) @@ @]
             ELSE [tables EXCEPT !.holidays = (date_key :> description) @@ @]

RECURSIVE ParseLines(_, _)
\* the for loop of load_holidays over lines[1:]
ParseLines(tables, lines) ==
    IF lines = <<>> THEN tables
    ELSE IF lines[1].text = "blank" THEN ParseLines(tables, Tail(lines))
    ELSE ParseLines(_parse_holiday_line(tables, lines[1]), Tail(lines))

\* load_holidays on the empty dicts of __init__; file is Absent for None (or
\* an empty path), and file.readable is FALSE when open or readlines raises
load_holidays(file) ==
    IF ~IsPresent(file) THEN _load_default_holidays
    ELSE IF ~Get(file).readable THEN _load_default_holidays
    ELSE ParseLines([holidays |-> EmptyTable, optional_holidays |-> EmptyTable],
                    IF Get(file).lines = <<>> THEN <<>> ELSE Tail(Get(file).lines))

is_holiday(dt) == DateKey(dt) \in DOMAIN holidays

is_optional_holiday(dt) == DateKey(dt) \in DOMAIN optional_holidays

\* get_holiday_name: Absent stands for None
get_holiday_name(dt) ==
    IF DateKey(dt) \in DOMAIN holidays THEN Some(holidays[DateKey(dt)])
    ELSE IF DateKey(dt) \in DOMAIN optional_holidays
    THEN Some("[FACULTATIVO] " \o optional_holidays[DateKey(dt)])
    ELSE Absent

(***************************************************************************)
(* CalendarWithHolidays.  The calendar dict is the sequence of its entries *)
(* in insertion order; an entry's key is its 'date'.                       *)
(***************************************************************************)
\* date.strftime('%A')
DayName(dt) ==
    <<"Monday", "Tuesday", "Wednesday", "Thursday", "Friday", "Saturday",
      "Sunday">>[Weekday(dt) + 1]

\* date.strftime('%d/%m/%Y')
FullDateKey(dt) == DateKey(dt) \o "/" \o ToString(dt.year)

\* the entry generate_calendar builds for one date
CalendarEntry(dt) ==
    [date |-> FullDateKey(dt),
     day_of_week |-> DayName(dt),
     is_holiday |-> is_holiday(dt),
     is_optional_holiday |-> ~is_holiday(dt) /\ is_optional_holiday(dt),
     holiday_name |-> IF is_holiday(dt) \/ is_optional_holiday(dt)
                      THEN get_holiday_name(dt) ELSE Absent]

\* the entries the while loop of generate_calendar adds while current_date
\* is in month m
MonthEntries(y, m) == [d \in 1..DaysInMonth(y, m) |-> CalendarEntry(Date(y, m, d))]

RECURSIVE CalendarFrom(_, _)
\* the while loop of generate_calendar from the first day of month m on
CalendarFrom(y, m) ==
    IF m > 12 THEN <<>> ELSE MonthEntries(y, m) \o CalendarFrom(y, m + 1)

generate_calendar(y) == CalendarFrom(y, 1)

\* a get_non_working_days that lists the holidays only
get_non_working_days_holidays(cal) ==
    LET non_working == SelectSeq(cal, LAMBDA entry :
                           entry.is_holiday \/ entry.is_optional_holiday)
    IN  [n \in 1..Len(non_working) |-> non_working[n].date]

get_non_working_days(cal) ==
    LET non_working == SelectSeq(cal, LAMBDA entry :
                           \/ entry.is_holiday \/ entry.is_optional_holiday
                           \/ entry.day_of_week \in {"Saturday", "Sunday"})
    IN  [n \in 1..Len(non_working) |-> non_working[n].date]

\* get_working_days: start and end are the strings the caller passes
get_working_days(cal, start, end) ==
    LET working == SelectSeq(cal, LAMBDA entry :
                       /\ ~entry.is_holiday /\ ~entry.is_optional_holiday
                       /\ entry.day_of_week \notin {"Saturday", "Sunday"})
    IN  [n \in 1..Len(working) |-> working[n].date]

(***************************************************************************)
(* CalendarReader._extract_letive_days                                     *)
(***************************************************************************)
start_date == Date(2026, 3, 1)

end_date == Date(2027, 12, 31)

LetiveWeekdays == {0, 2, 4, 5}

\* Config.WEEKLY_SCHEDULE['days'] / BIWEEKLY_SCHEDULE['days'] as weekday()
\* numbers: segunda, quarta / sexta, sabado
PatternWeekdays == [weekly |-> {0, 2}, biweekly |-> {4, 5}]

\* ScheduleGenerator2026 keeps one calendar_data for SEMANAL and QUINZENAL:
\* the teaching days it holds for a cohort are the whole list
TeachingDays(cohort) == letive_days

InitCalendar ==
    /\ current_date = start_date
    /\ letive_days = <<>>
    /\ extract_pc = "loop"

\* a loop that puts each new teaching day in front of the earlier ones
ExtractLoop_prepend ==
    /\ extract_pc = "loop"
    /\ DateLeq(current_date, end_date)
    /\ letive_days' = IF Weekday(current_date) \in LetiveWeekdays
                        THEN <<current_date>> \o letive_days
                        ELSE letive_days
    /\ current_date' = NextDay(current_date)
    /\ UNCHANGED extract_pc
    /\ UNCHANGED <<pipeVars, valVars, verVars, catVars, botVars, holVars>>

\* one iteration of the while loop
ExtractLoop ==
    /\ extract_pc = "loop"
    /\ DateLeq(current_date, end_date)
    /\ letive_days' = IF Weekday(current_date) \in LetiveWeekdays
                        THEN Append(letive_days, current_date)
                        ELSE letive_days
    /\ current_date' = NextDay(current_date)
    /\ UNCHANGED extract_pc
    /\ UNCHANGED <<pipeVars, valVars, verVars, catVars, botVars, holVars>>

\* the loop condition fails: return letive_days
ExtractReturn ==
    /\ extract_pc = "loop"
    /\ ~DateLeq(current_date, end_date)
    /\ extract_pc' = "done"
    /\ UNCHANGED <<current_date, letive_days>>
    /\ UNCHANGED <<pipeVars, valVars, verVars, catVars, botVars, holVars>>

(***************************************************************************)
(* CalendarValidator                                                       *)
(***************************************************************************)
\* load_calendar: file is "missing" when pd.read_csv raises (no such file, or
\* nothing to parse in it), "rows" otherwise
load_calendar(file) ==
    IF file = "missing"
    THEN [ok |-> FALSE, academic_calendar |-> "None"]
    ELSE [ok |-> TRUE, academic_calendar |-> "rows"]

\* validate; academic_calendar is "None", "empty", "rows", or "broken" (an
\* object whose .empty raises)
CalendarValidate(academic_calendar) ==
    IF academic_calendar = "None"
    THEN [status |-> "INVALIDO", errors |-> Some(<<"Calendario nao carregado">>),
          warnings |-> Some(<<>>)]
    ELSE IF academic_calendar = "empty"
    THEN [status |-> "INVALIDO", errors |-> Some(<<"Calendario vazio">>),
          warnings |-> Some(<<>>)]
    ELSE IF academic_calendar = "broken"
    THEN [status |-> "INVALIDO", errors |-> Some(<<"Erro na validacao">>),
          warnings |-> Some(<<>>)]
    ELSE [status |-> "VALIDO", errors |-> Some(<<>>), warnings |-> Some(<<>>)]

(***************************************************************************)
(* DisciplineAnalyzer.  A catalog row keeps the columns the code reads:    *)
(* Disciplina, Hora_aula and Encontros (numeric or not), Sigla.            *)
(***************************************************************************)
Num(n) == [numeric |-> TRUE, value |-> n]

NaN == [numeric |-> FALSE, value |-> 0]

FullRow(name, hora, encontros, sigla) ==
    [Disciplina |-> name, Hora_aula |-> hora, Encontros |-> encontros, Sigla |-> sigla]

\* a row whose Encontros cell is not a number
Row(name, hora, sigla) == FullRow(name, hora, NaN, sigla)

HeaderRow == Row("Disciplina", NaN, "Sigla")

\* a loader that gives up on the whole file when one hour field is not a number
load_disciplines_strict(file) ==
    IF ~file.readable
    THEN [ok |-> FALSE, disciplines |-> <<>>]
    ELSE LET body == IF file.rows[1].Disciplina = "Disciplina"
                     THEN Tail(file.rows) ELSE file.rows
         IN  IF \E n \in DOMAIN body : ~body[n].Hora_aula.numeric
             THEN [ok |-> FALSE, disciplines |-> <<>>]
             ELSE [ok |-> TRUE, disciplines |-> body]

\* load_disciplines; file.readable is FALSE when read_csv or the column
\* assignment raises, file.rows are the rows read_csv returns (never none)
load_disciplines(file) ==
    IF ~file.readable
    THEN [ok |-> FALSE, disciplines |-> <<>>]
    ELSE LET body == IF file.rows[1].Disciplina = "Disciplina"
                     THEN Tail(file.rows) ELSE file.rows
         IN  [ok |-> TRUE,
              disciplines |-> SelectSeq(body, LAMBDA r : r.Hora_aula.numeric)]

\* the number of sessions of a loaded discipline: the Encontros column as
\* read, nothing in the code computes one
required_session_count(discipline) == discipline.Encontros

RECURSIVE SumHours(_)
SumHours(ds) == IF ds = <<>> THEN 0 ELSE ds[1].Hora_aula.value + SumHours(Tail(ds))

\* analyze
analyze(disciplines) ==
    IF disciplines = <<>>
    THEN [error |-> Some("Disciplinas nao carregadas"), total_disciplines |-> Absent,
          total_hours |-> Absent, by_load |-> Absent]
    ELSE LET loads == {disciplines[i].Hora_aula.value : i \in DOMAIN disciplines}
             subset(l) == SelectSeq(disciplines, LAMBDA r : r.Hora_aula.value = l)
         IN  [error |-> Absent,
              total_disciplines |-> Some(Len(disciplines)),
              total_hours |-> Some(SumHours(disciplines)),
              by_load |-> Some([l \in loads |->
                                 [count |-> Len(subset(l)),
                                  total_hours |-> SumHours(subset(l))]])]

(***************************************************************************)
(* ScheduleGenerator.  'slots' holds a reference to the class attribute,   *)
(* not a copy: the schedule stores the name of the list object.            *)
(***************************************************************************)
Slot(day, time) == [day |-> day, time |-> time, duration |-> 100]

WEEKLY_SLOTS ==
    <<Slot("Segunda", "19:00-20:40"), Slot("Segunda", "21:00-22:40"),
      Slot("Quarta", "19:00-20:40"), Slot("Quarta", "21:00-22:40")>>

BIWEEKLY_SLOTS ==
    <<Slot("Sexta", "19:00-20:40"), Slot("Sexta", "21:00-22:40"),
      Slot("Sabado", "08:00-09:40"), Slot("Sabado", "10:00-11:40"),
      Slot("Sabado", "13:00-14:40"), Slot("Sabado", "15:00-16:40")>>

\* the start of a slot's 'time' string, in minutes after midnight
StartMinutes(time) ==
    CASE time = "08:00-09:40" -> 8 * 60
      [] time = "10:00-11:40" -> 10 * 60
      [] time = "13:00-14:40" -> 13 * 60
      [] time = "15:00-16:40" -> 15 * 60
      [] time = "19:00-20:40" -> 19 * 60
      [] time = "21:00-22:40" -> 21 * 60

InitHeap == [WEEKLY_SLOTS |-> WEEKLY_SLOTS, BIWEEKLY_SLOTS |-> BIWEEKLY_SLOTS]

\* Config.WEEKLY_SCHEDULE / BIWEEKLY_SCHEDULE: the hours of one occurrence and
\* the occurrence counts
WEEKLY_SCHEDULE ==
    [hours_per_week |-> 4, semester_1_weeks |-> 16, semester_2_weeks |-> 20]

BIWEEKLY_SCHEDULE ==
    [hours_per_biweek |-> 12, semester_1_encounters |-> 8, semester_2_encounters |-> 10]

capacity ==
    [weekly |-> [sem1 |-> 64, sem2 |-> 80], biweekly |-> [sem1 |-> 96, sem2 |-> 120]]

\* a generator that books two disciplines into the first slot of one date
generate_weekly_schedule_double(disciplines, semester) ==
    [type |-> "weekly", semester |-> semester, capacity |-> capacity.weekly[semester],
     slots |-> "WEEKLY_SLOTS",
     assignments |-> <<[discipline |-> "D1", date |-> 1, slot |-> 1, hours |-> 40],
                       [discipline |-> "D2", date |-> 1, slot |-> 1, hours |-> 20]>>]

generate_weekly_schedule(disciplines, semester) ==
    [type |-> "weekly", semester |-> semester, capacity |-> capacity.weekly[semester],
     slots |-> "WEEKLY_SLOTS", assignments |-> <<>>]

\* a biweekly generator that looks its capacity up in the weekly row
generate_biweekly_schedule_weekly(disciplines, semester) ==
    [type |-> "biweekly", semester |-> semester, capacity |-> capacity.weekly[semester],
     slots |-> "BIWEEKLY_SLOTS", assignments |-> <<>>]

generate_biweekly_schedule(disciplines, semester) ==
    [type |-> "biweekly", semester |-> semester, capacity |-> capacity.biweekly[semester],
     slots |-> "BIWEEKLY_SLOTS", assignments |-> <<>>]

(***************************************************************************)
(* ConflictValidator.validate_schedule; the argument is Absent for the     *)
(* empty dict and Some(schedule) otherwise.                                *)
(***************************************************************************)
\* a validator that flags the empty schedule but forgets to record the conflict
validate_schedule_silent(schedule) ==
    IF ~IsPresent(schedule)
    THEN [status |-> "INVALIDO", conflicts |-> <<>>, warnings |-> <<>>]
    ELSE [status |-> "VALIDO", conflicts |-> <<>>, warnings |-> <<>>]

validate_schedule(schedule) ==
    IF ~IsPresent(schedule)
    THEN [status |-> "INVALIDO", conflicts |-> <<"Horario vazio">>, warnings |-> <<>>]
    ELSE [status |-> "VALIDO", conflicts |-> <<>>, warnings |-> <<>>]

(***************************************************************************)
(* ScheduleManager.process.  now is the value datetime.now() returns.      *)
(* raised: the KeyError of disc_analysis['total_disciplines'] when analyze *)
(* returned its error dict.  disciplines is what the call leaves in        *)
(* self.discipline_analyzer.disciplines.                                   *)
(***************************************************************************)
NoSteps ==
    [calendar_validation |-> Absent, discipline_analysis |-> Absent,
     schedule_generation |-> Absent, conflict_validation |-> Absent]

\* a process that also stamps the export status with the wall clock
process_stamped(course, year, calendar_file, distribution_file, now) ==
    [raised |-> FALSE, disciplines |-> <<>>,
     results |-> [course |-> course, year |-> year, timestamp |-> now,
                  steps |-> NoSteps, export_status |-> Some(ToString(now))]]

\* a process that goes on to generate although no earlier step was recorded
process_skipping(course, year, calendar_file, distribution_file, now) ==
    [raised |-> FALSE, disciplines |-> <<>>,
     results |-> [course |-> course, year |-> year, timestamp |-> now,
                  steps |-> [NoSteps EXCEPT !.schedule_generation =
                                Some([weekly |-> generate_weekly_schedule(<<>>, "sem1"),
                                      biweekly |-> generate_biweekly_schedule(<<>>, "sem1")])],
                  export_status |-> Absent]]

process(course, year, calendar_file, distribution_file, now) ==
    LET base == [course |-> course, year |-> year, timestamp |-> now,
                 steps |-> NoSteps, export_status |-> Absent]
        cal == load_calendar(calendar_file)
        s1 == [NoSteps EXCEPT !.calendar_validation =
                   Some(CalendarValidate(cal.academic_calendar))]
        cat == load_disciplines(distribution_file)
        disc_analysis == analyze(cat.disciplines)
        s2 == [s1 EXCEPT !.discipline_analysis = Some(disc_analysis)]
        weekly_sched == generate_weekly_schedule(<<>>, "sem1")
        biweekly_sched == generate_biweekly_schedule(<<>>, "sem1")
        s3 == [s2 EXCEPT !.schedule_generation =
                   Some([weekly |-> weekly_sched, biweekly |-> biweekly_sched])]
        s4 == [s3 EXCEPT !.conflict_validation =
                   Some([weekly |-> validate_schedule(Some(weekly_sched)),
                         biweekly |-> validate_schedule(Some(biweekly_sched))])]
    IN  IF ~cal.ok
        THEN [raised |-> FALSE, disciplines |-> <<>>,
              results |-> [base EXCEPT !.steps =
                  [NoSteps EXCEPT !.calendar_validation =
                      Some([status |-> "ERRO", errors |-> Absent, warnings |-> Absent])]]]
        ELSE IF ~cat.ok
        THEN [raised |-> FALSE, disciplines |-> <<>>,
              results |-> [base EXCEPT !.steps =
                  [s1 EXCEPT !.discipline_analysis =
                      Some([error |-> Some("Nao foi possivel carregar"),
                            total_disciplines |-> Absent, total_hours |-> Absent,
                            by_load |-> Absent])]]]
        ELSE IF ~IsPresent(disc_analysis.total_disciplines)
        THEN [raised |-> TRUE, disciplines |-> cat.disciplines,
              results |-> [base EXCEPT !.steps = s2]]
        ELSE [raised |-> FALSE, disciplines |-> cat.disciplines,
              results |-> [base EXCEPT !.steps = s4,
                                       !.export_status = Some("Pronto para exportacao")]]

(***************************************************************************)
(* VersionManager.create_schedule_version on the dict vs; returns the new  *)
(* dict and the version_info it appended.                                  *)
(***************************************************************************)
VersionKey(course, year) == course \o "_" \o year

\* a version manager that keeps only the newest version of a course and year
create_schedule_version_replace(vs, course, year, schedule_data, notes, now) ==
    LET version_key == VersionKey(course, year)
        stored == IF version_key \in DOMAIN vs THEN vs[version_key] ELSE <<>>
        version_info ==
            [course |-> course, year |-> year, version |-> Len(stored) + 1,
             created_at |-> now, notes |-> notes, data |-> schedule_data,
             file_name |-> course \o "_" \o year \o "_v"
                           \o ToString(Len(stored) + 1) \o ".json"]
    IN  [versions |-> [k \in DOMAIN vs \cup {version_key} |->
                          IF k = version_key THEN <<version_info>> ELSE vs[k]],
         version_info |-> version_info]

create_schedule_version(vs, course, year, schedule_data, notes, now) ==
    LET version_key == VersionKey(course, year)
        stored == IF version_key \in DOMAIN vs THEN vs[version_key] ELSE <<>>
        version_number == Len(stored) + 1
        version_info ==
            [course |-> course, year |-> year, version |-> version_number,
             created_at |-> now, notes |-> notes, data |-> schedule_data,
             file_name |-> course \o "_" \o year \o "_v" \o ToString(version_number)
                           \o ".json"]
    IN  [versions |-> [k \in DOMAIN vs \cup {version_key} |->
                          IF k = version_key THEN Append(stored, version_info)
                          ELSE vs[k]],
         version_info |-> version_info]

\* a version manager that hands out the oldest stored version as the latest
get_latest_version_first(vs, course, year) ==
    LET version_key == VersionKey(course, year)
    IN  IF version_key \in DOMAIN vs /\ vs[version_key] # <<>>
        THEN Some(vs[version_key][1])
        ELSE Absent

\* VersionManager.get_latest_version: Absent stands for None
get_latest_version(vs, course, year) ==
    LET version_key == VersionKey(course, year)
    IN  IF version_key \in DOMAIN vs /\ vs[version_key] # <<>>
        THEN Some(vs[version_key][Len(vs[version_key])])
        ELSE Absent

\* next((v for v in stored if v['version'] == number), None)
FindVersion(stored, number) ==
    LET hits == {n \in DOMAIN stored : stored[n].version = number}
    IN  IF hits = {} THEN Absent
        ELSE Some(stored[CHOOSE n \in hits : \A m \in hits : n <= m])

\* VersionManager.compare_versions: the dict it returns, with 'error' as an
\* optional field
compare_versions(vs, course, year, v1, v2) ==
    LET version_key == VersionKey(course, year)
    IN  IF version_key \notin DOMAIN vs
        THEN [error |-> Some("Nenhuma versao encontrada")]
        ELSE LET ver1 == FindVersion(vs[version_key], v1)
                 ver2 == FindVersion(vs[version_key], v2)
             IN  IF ~IsPresent(ver1) \/ ~IsPresent(ver2)
                 THEN [error |-> Some("Versao nao encontrada")]
                 ELSE [error |-> Absent, course |-> course, year |-> year,
                       version_1 |-> v1, version_2 |-> v2,
                       created_at_v1 |-> Get(ver1).created_at,
                       created_at_v2 |-> Get(ver2).created_at,
                       notes_v1 |-> Get(ver1).notes,
                       notes_v2 |-> Get(ver2).notes,
                       comparison |-> "Comparacao de versoes"]

(***************************************************************************)
(* WhatsAppBot.send_schedule_update: the numbers it sends to.  recipients  *)
(* is Absent for None, Some(list) otherwise; self_contacts is the key list *)
(* of self.contacts.                                                       *)
(***************************************************************************)
send_schedule_update(self_contacts, recipients) ==
    IF IsPresent(recipients) /\ Get(recipients) # <<>>
    THEN Get(recipients)
    ELSE self_contacts

\* send_weekly_schedule and send_holiday_alert choose the numbers the same way
send_weekly_schedule(self_contacts, recipients) ==
    IF IsPresent(recipients) /\ Get(recipients) # <<>>
    THEN Get(recipients)
    ELSE self_contacts

send_holiday_alert(self_contacts, recipients) ==
    IF IsPresent(recipients) /\ Get(recipients) # <<>>
    THEN Get(recipients)
    ELSE self_contacts

\* send_broadcast: the numbers it sends to; group_name is Absent for None
send_broadcast(self_contacts, group_name) == self_contacts

\* self.contacts is a dict keyed by phone: a sequence of [phone, role] in
\* insertion order.  add_contact overwrites the entry of a known phone in
\* place and appends a new one.
add_contact(cs, phone, role) ==
    IF \E n \in DOMAIN cs : cs[n].phone = phone
    THEN [n \in DOMAIN cs |-> IF cs[n].phone = phone
                              THEN [phone |-> phone, role |-> role] ELSE cs[n]]
    ELSE Append(cs, [phone |-> phone, role |-> role])

RECURSIVE add_group(_, _)
\* add_group: add_contact(member, role 'group_member') for each member; the
\* group name is only printed
add_group(cs, members) ==
    IF members = <<>> THEN cs
    ELSE add_group(add_contact(cs, members[1], "group_member"), Tail(members))

\* list(self.contacts.keys())
ContactPhones(cs) == [n \in DOMAIN cs |-> cs[n].phone]

\* send_message once for each phone, in order: what is appended to
\* self.sent_messages
Messages(phones, type) == [n \in DOMAIN phones |-> [to |-> phones[n], type |-> type]]

(***************************************************************************)
(* ScheduleManagementSystem.generate_schedules                             *)
(*   f: the files on disk, e: the environment, t1 / t2: the values of      *)
(*   datetime.now() in generate_schedules and in process.                  *)
(* effects lists the collaborator calls that were made, in order.          *)
(***************************************************************************)
\* AdvancedSpreadsheetGenerator.generate_complete_schedule: keys of files,
\* in insertion order
generate_complete_schedule(e) ==
    IF ~e.writable THEN <<>>
    ELSE IF e.libreoffice
    THEN <<"weekly_ods", "weekly_pdf", "biweekly_ods", "biweekly_pdf">>
    ELSE <<"weekly_ods", "biweekly_ods">>

generate_schedules(course, year, f, e, t1, t2) ==
    LET p == process(course, year, f.cal, f.dist[course], t2)
        base == [raised |-> FALSE, course |-> course, year |-> year,
                 timestamp |-> t1, schedule_results |-> Absent,
                 disciplines |-> p.disciplines, files |-> <<>>,
                 notifications |-> <<>>, effects |-> <<>>]
        done1 == [base EXCEPT !.schedule_results = Some(p.results)]
        files == generate_complete_schedule(e)
        done2 == [done1 EXCEPT !.files = files, !.effects = <<"render">>]
        \* results['files'] is files itself: the insert of '<key>_drive' while
        \* files.items() is iterated raises RuntimeError at the next item
        done3 == [done2 EXCEPT !.raised = TRUE,
                               !.files = Append(files, files[1] \o "_drive"),
                               !.effects = <<"render", "upload">>]
        api == IsPresent(e.api_keys)
        shared == <<>>  \* no file_info dict can be in results['files'] here
        secretaria_phones == IF api THEN Get(e.api_keys).secretaria ELSE <<>>
        prof_phones == IF api THEN Get(e.api_keys).professores[course] ELSE <<>>
        n5 == IF secretaria_phones # <<>>
              THEN send_schedule_update(<<>>, Some(secretaria_phones)) ELSE <<>>
        n6 == IF prof_phones # <<>>
              THEN send_schedule_update(<<>>, Some(prof_phones)) ELSE <<>>
        done6 == [done2 EXCEPT
                    !.notifications = n5 \o n6,
                    !.effects = <<"render">> \o shared
                                \o (IF n5 # <<>> THEN <<"notify_secretaria">> ELSE <<>>)
                                \o (IF n6 # <<>> THEN <<"notify_professores">> ELSE <<>>)]
    IN  IF p.raised THEN [base EXCEPT !.raised = TRUE]
        ELSE IF ~e.odf THEN [done1 EXCEPT !.raised = TRUE]
        ELSE IF files # <<>> THEN done3
        ELSE done6

(***************************************************************************)
(* Inputs and bounds                                                       *)
(***************************************************************************)
MaxRuns == 2

MaxClock == 2

MaxMutations == 1

MaxAssign == 2

MaxVersions == 3

Courses == {"criminologia", "gespin"}

Years == {"2026-2027"}

CalendarFiles == {"missing", "rows"}

CatalogFile(rows) == [readable |-> TRUE, rows |-> rows]

CatalogFiles ==
    {[readable |-> FALSE, rows |-> <<>>],
     CatalogFile(<<Row("D1", Num(40), "D1")>>),
     CatalogFile(<<HeaderRow, Row("D1", Num(40), "D1"), Row("D2", Num(20), "D2")>>),
     CatalogFile(<<Row("D1", NaN, "D1")>>),
     CatalogFile(<<Row("D1", Num(40), "D1"), Row("D2", NaN, "D2"),
                   Row("D3", Num(40), "D3")>>)}

\* api_keys.py when it can be imported
ApiKeys ==
    [share_with |-> <<"secretaria@example.com">>,
     secretaria |-> <<"+5531900000001">>,
     professores |-> [c \in Courses |->
                        IF c = "criminologia" THEN <<"+5531900000002">> ELSE <<>>]]

Envs ==
    [odf : BOOLEAN, writable : BOOLEAN, libreoffice : BOOLEAN,
     api_keys : {Absent, Some(ApiKeys)}]

Changes == {"ajuste"}

(***************************************************************************)
(* Initial states                                                          *)
(***************************************************************************)
IdleCalendar ==
    /\ current_date = start_date
    /\ letive_days = <<>>
    /\ extract_pc = "idle"

IdlePipeline ==
    /\ fs = [cal |-> "rows", dist |-> [c \in Courses |-> CatalogFile(<<Row("D1", Num(40), "D1")>>)]]
    /\ env = [odf |-> TRUE, writable |-> TRUE, libreoffice |-> TRUE, api_keys |-> Absent]
    /\ runs = <<>>
    /\ crashed = FALSE
    /\ heap = InitHeap
    /\ last_mutator = [run |-> 0, which |-> "none"]

NoCall == [fn |-> "none", schedule |-> Absent, calendar |-> "None"]

NoReport == [status |-> "none", conflicts |-> <<>>, warnings |-> <<>>]

IdleValidate ==
    /\ val_in = NoCall
    /\ val_out = NoReport

\* no version query is being answered
NoQuery == [fn |-> "none"]

IdleVersions ==
    /\ versions = <<>>
    /\ ver_query = NoQuery

\* DisciplineAnalyzer.__init__ before any file is named; no generator call yet
\* load_ok / analysis: what load_disciplines() / analyze() returned last
NoAnalyzer ==
    [distribution_file |-> [readable |-> FALSE, rows |-> <<>>],
     disciplines |-> Absent, statistics |-> Absent,
     load_ok |-> Absent, analysis |-> Absent]

IdleCatalog ==
    /\ analyzer = NoAnalyzer
    /\ gen_out = Absent

\* a send call as observed: its arguments, the contacts and the group
\* members at the time of the call, and the length of sent_messages before it
NoBotCall ==
    [fn |-> "none", recipients |-> Absent, group_name |-> Absent, from |-> 0,
     contacts |-> <<>>, members |-> [g \in {} |-> {}]]

\* WhatsAppBot.__init__
IdleBot ==
    /\ contacts = <<>>
    /\ sent_messages = <<>>
    /\ bot_call = NoBotCall
    /\ added_groups = [g \in {} |-> {}]

NoPeriod == [fn |-> "none", start |-> start_date, end |-> start_date]

\* HolidayManager() without a file, after its constructor
DefaultManager ==
    /\ holidays_file = Absent
    /\ holidays = load_holidays(Absent).holidays
    /\ optional_holidays = load_holidays(Absent).optional_holidays
    /\ hm_loaded = TRUE

\* CalendarWithHolidays.__init__
IdleHolidays ==
    /\ cal_year = start_date.year
    /\ calendar = <<>>
    /\ hol_call = NoPeriod
    /\ hol_out = <<>>
    /\ DefaultManager

IdleObjects == IdleCatalog /\ IdleBot /\ IdleHolidays

InitPipeline ==
    /\ fs \in [cal : CalendarFiles, dist : [Courses -> CatalogFiles]]
    /\ env \in Envs
    /\ runs = <<>>
    /\ crashed = FALSE
    /\ heap = InitHeap
    /\ last_mutator = [run |-> 0, which |-> "none"]

(***************************************************************************)
(* The menu loop of main(): options 1/2 and 3                              *)
(***************************************************************************)
\* system.generate_schedules(course, '2026-2027')
GenerateSchedules(course, year) ==
    /\ ~crashed
    /\ Len(runs) < MaxRuns
    /\ \E t1 \in clock..MaxClock : \E t2 \in t1..MaxClock :
         LET r == generate_schedules(course, year, fs, env, t1, t2)
         IN  /\ runs' = Append(runs, [op |-> "generate", version |-> Absent, out |-> r])
             /\ crashed' = r.raised
             /\ clock' = t2
    /\ UNCHANGED <<fs, env, heap, last_mutator>>
    /\ UNCHANGED <<calVars, valVars, verVars, catVars, botVars, holVars>>

\* system.update_and_notify(course, year, changes): the VersionManager is
\* built anew in every call
UpdateAndNotify(course, year, changes) ==
    /\ ~crashed
    /\ Len(runs) < MaxRuns
    /\ \E t1 \in clock..MaxClock : \E t2 \in t1..MaxClock :
         LET r == generate_schedules(course, year, fs, env, t1, t2)
             v == create_schedule_version(<<>>, course, year, "results", Some(changes), t2)
         IN  /\ runs' = Append(runs,
                    [op |-> "update",
                     version |-> IF r.raised THEN Absent
                                 ELSE Some(v.version_info.version),
                     out |-> r])
             /\ crashed' = r.raised
             /\ clock' = t2
    /\ UNCHANGED <<fs, env, heap, last_mutator>>
    /\ UNCHANGED <<calVars, valVars, verVars, catVars, botVars, holVars>>

PipelineNext ==
    \/ \E c \in Courses, y \in Years : GenerateSchedules(c, y)
    \/ \E c \in Courses, y \in Years, ch \in Changes : UpdateAndNotify(c, y, ch)

CalendarInit ==
    InitCalendar /\ IdlePipeline /\ clock = 0 /\ IdleValidate /\ IdleVersions
    /\ IdleObjects

CalendarNext == ExtractLoop \/ ExtractReturn

SpecCalendar == CalendarInit /\ [][CalendarNext]_vars

PipelineInit ==
    IdleCalendar /\ InitPipeline /\ clock = 0 /\ IdleValidate /\ IdleVersions
    /\ IdleObjects

SpecPipeline == PipelineInit /\ [][PipelineNext]_vars

(***************************************************************************)
(* Reading the log of runs                                                 *)
(***************************************************************************)
Returned(i) == IsPresent(runs[i].out.schedule_results)

Results(i) == Get(runs[i].out.schedule_results)

HasSchedules(i) == Returned(i) /\ IsPresent(Results(i).steps.schedule_generation)

Sched(i, w) == Get(Results(i).steps.schedule_generation)[w]

Validated(i) == Returned(i) /\ IsPresent(Results(i).steps.conflict_validation)

Report(i, w) == Get(Results(i).steps.conflict_validation)[w]

Cohorts == {"weekly", "biweekly"}

LoadFailed(i) ==
    \/ ~load_calendar(fs.cal).ok
    \/ ~load_disciplines(fs.dist[runs[i].out.course]).ok

(***************************************************************************)
(* C1: in every schedule the generator produces, no two assignment entries *)
(* share the same slot instance (date + slot).                             *)
(***************************************************************************)
C1_NoDoubleBooking ==
    \A i \in DOMAIN runs : HasSchedules(i) =>
        \A w \in Cohorts :
            LET a == Sched(i, w).assignments
            IN  \A m, n \in DOMAIN a :
                    (m # n) => <<a[m].date, a[m].slot>> # <<a[n].date, a[n].slot>>

\* a run whose process reached schedule generation for a loaded catalog
C1_Witness ==
    \E i \in DOMAIN runs : HasSchedules(i) /\ runs[i].out.disciplines # <<>>

(***************************************************************************)
(* C3: after generation and validation, every discipline of the catalog    *)
(* has as many allocated sessions as it requires (its hours in 100-minute  *)
(* sessions, rounded up), or the validation report holds a HourShortfall   *)
(* warning for it.                                                         *)
(***************************************************************************)
C3_CoverageOrShortfall ==
    \A i \in DOMAIN runs : Validated(i) =>
        \A k \in DOMAIN runs[i].out.disciplines :
            LET d == runs[i].out.disciplines[k]
                minutes == d.Hora_aula.value * 60
                required == (minutes + 99) \div 100
                sessions(w) ==
                    {<<w, n>> : n \in {m \in DOMAIN Sched(i, w).assignments :
                        Sched(i, w).assignments[m].discipline = d.Disciplina}}
                allocated == Cardinality(UNION {sessions(w) : w \in Cohorts})
            IN  \/ allocated = required
                \/ \E w \in Cohorts : \E x \in DOMAIN Report(i, w).warnings :
                       Report(i, w).warnings[x] = <<"HourShortfall", d.Disciplina>>

(***************************************************************************)
(* C5: when the calendar or the catalog cannot be loaded, no schedule is   *)
(* generated, the caller gets an error value, and generate_schedules makes *)
(* no later step (no rendering, upload, sharing or notification).          *)
(***************************************************************************)
C5_AbortOnLoadFailure ==
    \A i \in DOMAIN runs : LoadFailed(i) =>
        /\ ~HasSchedules(i)
        /\ Returned(i) =>
             \/ Get(Results(i).steps.calendar_validation).status = "ERRO"
             \/ /\ IsPresent(Results(i).steps.discipline_analysis)
                /\ IsPresent(Get(Results(i).steps.discipline_analysis).error)
        /\ runs[i].out.effects = <<>>

(***************************************************************************)
(* C6: the n-th update_and_notify of a course and year reports version n.  *)
(***************************************************************************)
C6_VersionsIncrease ==
    \A i \in DOMAIN runs :
        (runs[i].op = "update" /\ IsPresent(runs[i].version)) =>
            Get(runs[i].version) =
                Cardinality({j \in 1..i :
                    /\ runs[j].op = "update"
                    /\ IsPresent(runs[j].version)
                    /\ runs[j].out.course = runs[i].out.course
                    /\ runs[j].out.year = runs[i].out.year})

(***************************************************************************)
(* C8: two runs of process on the same calendar, catalog and slot pattern  *)
(* return result records that are equal in every field.  (The files on     *)
(* disk do not change during a behaviour: the same course and year read    *)
(* the same calendar and catalog.)                                         *)
(***************************************************************************)
SameInputs(i, j) ==
    /\ Returned(i) /\ Returned(j)
    /\ Results(i).course = Results(j).course
    /\ Results(i).year = Results(j).year

C8_Determinism ==
    \A i, j \in DOMAIN runs : SameInputs(i, j) => Results(i) = Results(j)

\* C8 as amended: two runs of process on the same inputs return result
\* records that are equal in every field other than timestamp.
C8_DeterminismButTimestamp ==
    \A i, j \in DOMAIN runs : SameInputs(i, j) =>
        [Results(i) EXCEPT !.timestamp = 0] = [Results(j) EXCEPT !.timestamp = 0]

\* two complete runs on the same inputs, taken at different times
C8_Witness ==
    \E i, j \in DOMAIN runs :
        /\ i # j /\ SameInputs(i, j)
        /\ Validated(i) /\ Validated(j)
        /\ Results(i).timestamp # Results(j).timestamp

(***************************************************************************)
(* A caller that was handed the result of run i changes the slots list of  *)
(* its weekly or biweekly schedule (list.pop()).  The list is the object   *)
(* the schedule's 'slots' entry refers to.                                 *)
(***************************************************************************)
ClientMutateSlots(i, w) ==
    /\ ~crashed
    /\ i \in DOMAIN runs
    /\ HasSchedules(i)
    /\ LET ref == Sched(i, w).slots
       IN  /\ Len(heap[ref]) > Len(InitHeap[ref]) - MaxMutations
           /\ heap' = [heap EXCEPT ![ref] = SubSeq(heap[ref], 1, Len(heap[ref]) - 1)]
    /\ last_mutator' = [run |-> i, which |-> w]
    /\ UNCHANGED <<fs, env, clock, runs, crashed>>
    /\ UNCHANGED <<calVars, valVars, verVars, catVars, botVars, holVars>>

AliasNext ==
    \/ PipelineNext
    \/ \E i \in 1..MaxRuns, w \in Cohorts : ClientMutateSlots(i, w)

SpecAlias == PipelineInit /\ [][AliasNext]_vars

\* what a reader of run i's schedule w sees in its slots entry
SlotsView(i, w) == heap[Sched(i, w).slots]

\* the generator's slot pattern
PatternView == <<heap["WEEKLY_SLOTS"], heap["BIWEEKLY_SLOTS"]>>

(***************************************************************************)
(* C9: a change made to the slots list of the schedule one run returned is *)
(* never visible in a schedule of another run nor in the generator's slot  *)
(* pattern.                                                                *)
(***************************************************************************)
C9_NoSharedMutableState ==
    [][(heap' # heap) =>
          /\ PatternView' = PatternView
          /\ \A i \in DOMAIN runs : \A w \in Cohorts :
                (HasSchedules(i) /\ i # last_mutator'.run) =>
                    SlotsView(i, w)' = SlotsView(i, w)]_vars

(***************************************************************************)
(* The validators called on their own                                      *)
(***************************************************************************)
AssignmentEntries ==
    [discipline : {"D1", "D2"}, date : {1}, slot : {1, 2}, hours : {20, 40}]

RECURSIVE SeqsUpTo(_, _)
SeqsUpTo(S, n) ==
    IF n = 0 THEN {<<>>}
    ELSE LET shorter == SeqsUpTo(S, n - 1)
         IN  shorter \cup {Append(q, x) : q \in shorter, x \in S}

\* schedules a caller may hand to validate_schedule: the empty dict, the
\* generator's output, and schedules that carry assignments
ScheduleInputs ==
    {Absent}
    \cup {Some(generate_weekly_schedule(<<>>, sem)) : sem \in {"sem1", "sem2"}}
    \cup {Some(generate_biweekly_schedule(<<>>, sem)) : sem \in {"sem1", "sem2"}}
    \cup {Some([generate_weekly_schedule(<<>>, sem) EXCEPT !.assignments = a]) :
            sem \in {"sem1", "sem2"}, a \in SeqsUpTo(AssignmentEntries, MaxAssign)}
    \cup {Some([generate_biweekly_schedule(<<>>, sem) EXCEPT !.assignments = a]) :
            sem \in {"sem1", "sem2"}, a \in SeqsUpTo(AssignmentEntries, MaxAssign)}

CalendarInputs == {"None", "empty", "rows", "broken"}

\* ConflictValidator().validate_schedule(schedule)
CallValidateSchedule(schedule) ==
    /\ val_in' = [fn |-> "validate_schedule", schedule |-> schedule, calendar |-> "None"]
    /\ val_out' = validate_schedule(schedule)
    /\ UNCHANGED <<calVars, pipeVars, verVars, catVars, botVars, holVars>>

\* CalendarValidator.validate() with academic_calendar = c
CallCalendarValidate(c) ==
    /\ val_in' = [fn |-> "validate", schedule |-> Absent, calendar |-> c]
    /\ LET report == CalendarValidate(c)
       IN  val_out' = [status |-> report.status, conflicts |-> Get(report.errors),
                       warnings |-> Get(report.warnings)]
    /\ UNCHANGED <<calVars, pipeVars, verVars, catVars, botVars, holVars>>

IdleInit ==
    IdleCalendar /\ IdlePipeline /\ clock = 0 /\ IdleValidate /\ IdleVersions
    /\ IdleObjects

ValidateNext ==
    \/ \E sch \in ScheduleInputs : CallValidateSchedule(sch)
    \/ \E c \in CalendarInputs : CallCalendarValidate(c)

SpecValidate == IdleInit /\ [][ValidateNext]_vars

(***************************************************************************)
(* C4: in every validation report returned, the status is invalid exactly  *)
(* when the conflict (error) list is non-empty; a report that holds only   *)
(* warnings is valid.                                                      *)
(***************************************************************************)
C4_StatusIffConflicts ==
    (val_in.fn # "none") =>
        /\ val_out.status \in {"VALIDO", "INVALIDO"}
        /\ (val_out.status = "INVALIDO") <=> (val_out.conflicts # <<>>)

\* validate_schedule has returned an invalid report
C4_Witness ==
    /\ val_in.fn = "validate_schedule"
    /\ val_out.status = "INVALIDO"
    /\ val_out.conflicts # <<>>

(***************************************************************************)
(* C10: whenever the hours allocated in a semester add up to more than the *)
(* capacity of that cohort and semester, the validation report holds a     *)
(* CapacityExceeded conflict and its status is invalid.                    *)
(***************************************************************************)
C10_CapacityExceeded ==
    (val_in.fn = "validate_schedule" /\ IsPresent(val_in.schedule)) =>
        LET sch == Get(val_in.schedule)
            RECURSIVE AllocatedHours(_)
            AllocatedHours(a) ==
                IF a = <<>> THEN 0 ELSE a[1].hours + AllocatedHours(Tail(a))
        IN  (AllocatedHours(sch.assignments) > capacity[sch.type][sch.semester]) =>
                /\ val_out.status = "INVALIDO"
                /\ \E x \in DOMAIN val_out.conflicts :
                       val_out.conflicts[x] = "CapacityExceeded"

(***************************************************************************)
(* One VersionManager, as in the module test of google_drive_manager       *)
(***************************************************************************)
VersionData == {"dataA", "dataB"}

VersionNotes == {Absent, Some("nota")}

StoredVersions ==
    UNION {{<<k, n>> : n \in DOMAIN versions[k]} : k \in DOMAIN versions}

\* version_mgr.create_schedule_version(course, year, schedule_data, notes)
CreateScheduleVersion(course, year, schedule_data, notes) ==
    /\ ver_query = NoQuery
    /\ Cardinality(StoredVersions) < MaxVersions
    /\ \E t \in clock..MaxClock :
         /\ versions' = create_schedule_version(versions, course, year,
                                                schedule_data, notes, t).versions
         /\ clock' = t
    /\ UNCHANGED <<fs, env, runs, crashed, heap, last_mutator, ver_query>>
    /\ UNCHANGED <<calVars, valVars, catVars, botVars, holVars>>

VersionsNext ==
    \E c \in Courses, y \in Years, d \in VersionData, n \in VersionNotes :
        CreateScheduleVersion(c, y, d, n)

SpecVersions == IdleInit /\ [][VersionsNext]_vars

(***************************************************************************)
(* C7: creating a version never changes a stored one: every earlier record *)
(* keeps its course, year, version number, notes, creation time and data,  *)
(* and the stored list only grows.                                         *)
(***************************************************************************)
C7_StoredVersionsImmutable ==
    [][\A k \in DOMAIN versions :
          /\ k \in DOMAIN versions'
          /\ Len(versions'[k]) >= Len(versions[k])
          /\ \A n \in DOMAIN versions[k] : versions'[k][n] = versions[k][n]]_vars

\* a course and year with an earlier version and a later one
C7_Witness ==
    \E k \in DOMAIN versions : Len(versions[k]) >= 2

(***************************************************************************)
(* C2: no date whose (day, month) is in the mandatory or the optional      *)
(* holiday table is a teaching day offered to the generator, and no        *)
(* assignment is placed on such a date.                                    *)
(***************************************************************************)
C2_NoHolidayTeachingDay ==
    \A n \in DOMAIN letive_days :
        ~is_holiday(letive_days[n]) /\ ~is_optional_holiday(letive_days[n])

(***************************************************************************)
(* DisciplineAnalyzer and ScheduleGenerator called on their own: one       *)
(* analyzer on one catalog file, and the generators on what it loaded      *)
(***************************************************************************)
MaxRows == 3

CatalogRows ==
    {FullRow("D1", Num(40), Num(24), "D1"), FullRow("D2", Num(20), Num(10), "D2"),
     Row("D3", NaN, "D3"),
     Row("D1 bis", Num(40), "D1")}

\* the files: unreadable, or at least one row, with or without the header row
CatalogInputs ==
    {[readable |-> FALSE, rows |-> <<>>]}
    \cup {CatalogFile(r) : r \in SeqsUpTo(CatalogRows, MaxRows) \ {<<>>}}
    \cup {CatalogFile(<<HeaderRow>> \o r) : r \in SeqsUpTo(CatalogRows, MaxRows)}

Semesters == {"sem1", "sem2"}

InitCatalog ==
    /\ analyzer \in {[NoAnalyzer EXCEPT !.distribution_file = f] : f \in CatalogInputs}
    /\ gen_out = Absent

\* analyzer.load_disciplines(): self.disciplines is assigned only when the
\* file could be read
LoadDisciplines ==
    /\ LET r == load_disciplines(analyzer.distribution_file)
       IN  analyzer' = [analyzer EXCEPT
                          !.load_ok = Some(r.ok),
                          !.disciplines = IF r.ok THEN Some(r.disciplines) ELSE @]
    /\ UNCHANGED gen_out
    /\ UNCHANGED <<calVars, pipeVars, valVars, verVars, botVars, holVars>>

\* analyzer.analyze(): self.statistics is assigned only on the path that
\* builds the analysis
Analyze ==
    /\ LET a == analyze(IF IsPresent(analyzer.disciplines)
                        THEN Get(analyzer.disciplines) ELSE <<>>)
       IN  analyzer' = [analyzer EXCEPT
                          !.analysis = Some(a),
                          !.statistics = IF IsPresent(a.error) THEN @ ELSE Some(a)]
    /\ UNCHANGED gen_out
    /\ UNCHANGED <<calVars, pipeVars, valVars, verVars, botVars, holVars>>

\* ScheduleGenerator().generate_weekly_schedule(disciplines, semester) on the
\* loaded catalog
GenerateWeekly(semester) ==
    /\ IsPresent(analyzer.disciplines)
    /\ gen_out' = Some([disciplines |-> Get(analyzer.disciplines),
                        schedule |-> generate_weekly_schedule(
                                         Get(analyzer.disciplines), semester)])
    /\ UNCHANGED analyzer
    /\ UNCHANGED <<calVars, pipeVars, valVars, verVars, botVars, holVars>>

\* ScheduleGenerator().generate_biweekly_schedule(disciplines, semester)
GenerateBiweekly(semester) ==
    /\ IsPresent(analyzer.disciplines)
    /\ gen_out' = Some([disciplines |-> Get(analyzer.disciplines),
                        schedule |-> generate_biweekly_schedule(
                                         Get(analyzer.disciplines), semester)])
    /\ UNCHANGED analyzer
    /\ UNCHANGED <<calVars, pipeVars, valVars, verVars, botVars, holVars>>

CatalogInit ==
    IdleCalendar /\ IdlePipeline /\ clock = 0 /\ IdleValidate /\ IdleVersions
    /\ InitCatalog /\ IdleBot /\ IdleHolidays

CatalogNext ==
    \/ LoadDisciplines
    \/ Analyze
    \/ \E sem \in Semesters : GenerateWeekly(sem)
    \/ \E sem \in Semesters : GenerateBiweekly(sem)

SpecCatalog == CatalogInit /\ [][CatalogNext]_vars

(***************************************************************************)
(* C11: the teaching dates _extract_letive_days produces are strictly      *)
(* ascending (so none repeats), and within one day of a slot pattern the   *)
(* slots are listed in ascending start time.                               *)
(***************************************************************************)
C11_SlotInstancesIncreasing ==
    /\ \A n \in 1..(Len(letive_days) - 1) :
           Ordinal(letive_days[n]) < Ordinal(letive_days[n + 1])
    /\ \A w \in DOMAIN heap :
           \A m, n \in DOMAIN heap[w] :
               (m < n /\ heap[w][m].day = heap[w][n].day) =>
                   StartMinutes(heap[w][m].time) < StartMinutes(heap[w][n].time)

\* the loop has returned a list that spans both years
C11_Witness ==
    /\ extract_pc = "done"
    /\ \E m, n \in DOMAIN letive_days :
           letive_days[m].year = 2026 /\ letive_days[n].year = 2027

(***************************************************************************)
(* C12: loading a readable catalog succeeds whatever its hour fields hold, *)
(* and what is loaded is exactly the rows of the file whose hour field is  *)
(* numeric, in file order; rows with a non-numeric hour field are left out.*)
(***************************************************************************)
C12_NonNumericRowsSkipped ==
    LET RECURSIVE NumericRows(_, _)
        \* kept is rows without its non-numeric rows, order preserved
        NumericRows(rows, kept) ==
            IF rows = <<>> THEN kept = <<>>
            ELSE IF rows[1].Hora_aula.numeric
            THEN kept # <<>> /\ kept[1] = rows[1]
                 /\ NumericRows(Tail(rows), Tail(kept))
            ELSE NumericRows(Tail(rows), kept)
    IN  (IsPresent(analyzer.load_ok) /\ analyzer.distribution_file.readable) =>
            /\ Get(analyzer.load_ok)
            /\ IsPresent(analyzer.disciplines)
            /\ NumericRows(analyzer.distribution_file.rows, Get(analyzer.disciplines))

\* a loaded catalog that lost a row between two rows it kept
C12_Witness ==
    /\ IsPresent(analyzer.disciplines)
    /\ Len(Get(analyzer.disciplines)) = 2
    /\ \E n \in DOMAIN analyzer.distribution_file.rows :
          /\ ~analyzer.distribution_file.rows[n].Hora_aula.numeric
          /\ 1 < n /\ n < Len(analyzer.distribution_file.rows)
          /\ analyzer.distribution_file.rows[n - 1].Hora_aula.numeric

(***************************************************************************)
(* C13: the loaded catalog holds at most one row for each discipline code  *)
(* (Sigla), the first of the file, and the analysis counts each code once. *)
(***************************************************************************)
C13_DuplicateCodesDiscarded ==
    /\ IsPresent(analyzer.disciplines) =>
          LET ds == Get(analyzer.disciplines)
          IN  \A m, n \in DOMAIN ds : (m < n) => ds[m].Sigla # ds[n].Sigla
    /\ (IsPresent(analyzer.disciplines) /\ IsPresent(analyzer.statistics)) =>
          LET ds == Get(analyzer.disciplines)
          IN  Get(Get(analyzer.statistics).total_disciplines) =
                  Cardinality({ds[n].Sigla : n \in DOMAIN ds})

(***************************************************************************)
(* CalendarWithHolidays called on its own                                  *)
(***************************************************************************)
CalendarYears == {2026, 2027, 2028}

\* the ends of the periods a caller asks for, within the calendar's year
PeriodDates(y) ==
    {Date(y, 1, 1), Date(y, 3, 2), Date(y, 3, 6), Date(y, 4, 30), Date(y, 12, 31)}

HolidayFile(lines) == Some([readable |-> TRUE, lines |-> lines])

\* the managers a calendar is built on: the built-in tables, and a file that
\* names 21/04 both as a holiday and as a ponto facultativo
CalendarHolidayFiles ==
    {Absent,
     HolidayFile(<<OtherLine,
                   DateLine(21, "abril", Some("Tiradentes"), "feriado nacional"),
                   DateLine(21, "abril", Absent, "ponto facultativo"),
                   DateLine(20, "Abril", Some("Ponto Facultativo"), "Ponto Facultativo")>>)}

\* CalendarWithHolidays(year, holidays_file)
InitHolidays ==
    /\ cal_year \in CalendarYears
    /\ calendar = <<>>
    /\ hol_call = NoPeriod
    /\ hol_out = <<>>
    /\ holidays_file \in CalendarHolidayFiles
    /\ holidays = load_holidays(holidays_file).holidays
    /\ optional_holidays = load_holidays(holidays_file).optional_holidays
    /\ hm_loaded = TRUE

\* cal.generate_calendar()
GenerateCalendar ==
    /\ calendar' = generate_calendar(cal_year)
    /\ UNCHANGED <<cal_year, hol_call, hol_out, hmVars>>
    /\ UNCHANGED <<calVars, pipeVars, valVars, verVars, catVars, botVars>>

\* cal.get_working_days(start, end)
GetWorkingDays(start, end) ==
    /\ hol_call' = [fn |-> "get_working_days", start |-> start, end |-> end]
    /\ hol_out' = get_working_days(calendar, FullDateKey(start), FullDateKey(end))
    /\ UNCHANGED <<cal_year, calendar, hmVars>>
    /\ UNCHANGED <<calVars, pipeVars, valVars, verVars, catVars, botVars>>

\* cal.get_non_working_days()
GetNonWorkingDays ==
    /\ hol_call' = [NoPeriod EXCEPT !.fn = "get_non_working_days"]
    /\ hol_out' = get_non_working_days(calendar)
    /\ UNCHANGED <<cal_year, calendar, hmVars>>
    /\ UNCHANGED <<calVars, pipeVars, valVars, verVars, catVars, botVars>>

HolidaysInit ==
    IdleCalendar /\ IdlePipeline /\ clock = 0 /\ IdleValidate /\ IdleVersions
    /\ IdleCatalog /\ IdleBot /\ InitHolidays

(***************************************************************************)
(* HolidayManager(holidays_file) constructed on its own                    *)
(***************************************************************************)
MaxLines == 3

HolidayLines ==
    {DateLine(21, "abril", Some("Tiradentes"), "feriado nacional"),
     DateLine(21, "abril", Some("Inconfidencia"), "feriado estadual"),
     DateLine(21, "abril", Absent, "ponto facultativo"),
     DateLine(20, "Abril", Some("Ponto Facultativo"), "Ponto Facultativo"),
     DateLine(15, "abrl", Some("Dia sem mes"), "feriado nacional"),
     OtherLine, BlankLine}

\* no file, a file that cannot be read, and the files of up to MaxLines lines
HolidayFiles ==
    {Absent, Some([readable |-> FALSE, lines |-> <<>>])}
    \cup {HolidayFile(l) : l \in SeqsUpTo(HolidayLines, MaxLines)}

\* HolidayManager.__init__ up to its call of load_holidays
InitHolidayFile ==
    /\ cal_year = start_date.year
    /\ calendar = <<>>
    /\ hol_call = NoPeriod
    /\ hol_out = <<>>
    /\ holidays_file \in HolidayFiles
    /\ holidays = EmptyTable
    /\ optional_holidays = EmptyTable
    /\ hm_loaded = FALSE

\* self.load_holidays()
LoadHolidays ==
    /\ ~hm_loaded
    /\ holidays' = load_holidays(holidays_file).holidays
    /\ optional_holidays' = load_holidays(holidays_file).optional_holidays
    /\ hm_loaded' = TRUE
    /\ UNCHANGED <<cal_year, calendar, hol_call, hol_out, holidays_file>>
    /\ UNCHANGED <<calVars, pipeVars, valVars, verVars, catVars, botVars>>

HolidayFileInit ==
    IdleCalendar /\ IdlePipeline /\ clock = 0 /\ IdleValidate /\ IdleVersions
    /\ IdleCatalog /\ IdleBot /\ InitHolidayFile

HolidayFileNext == LoadHolidays

SpecHolidayFile == HolidayFileInit /\ [][HolidayFileNext]_vars

HolidaysNext ==
    \/ GenerateCalendar
    \/ \E a, b \in PeriodDates(cal_year) : GetWorkingDays(a, b)
    \/ GetNonWorkingDays

SpecHolidays == HolidaysInit /\ [][HolidaysNext]_vars

(***************************************************************************)
(* C14: get_working_days(start_date, end_date) on a generated calendar     *)
(* returns only dates of [start_date, end_date], and returns every date of *)
(* that period that is no holiday, no optional holiday, no Saturday and no *)
(* Sunday.                                                                 *)
(***************************************************************************)
C14_WorkingDaysOfPeriod ==
    (hol_call.fn = "get_working_days" /\ calendar # <<>>) =>
        LET days == {Date(cal_year, m, d) : m \in 1..12, d \in 1..31}
            period == {dt \in days :
                         /\ dt.day <= DaysInMonth(cal_year, dt.month)
                         /\ DateLeq(hol_call.start, dt) /\ DateLeq(dt, hol_call.end)}
            working == {dt \in period :
                          /\ ~is_holiday(dt) /\ ~is_optional_holiday(dt)
                          /\ Weekday(dt) \notin {5, 6}}
            returned == {hol_out[n] : n \in DOMAIN hol_out}
        IN  /\ returned \subseteq {FullDateKey(dt) : dt \in period}
            /\ {FullDateKey(dt) : dt \in working} \subseteq returned

(***************************************************************************)
(* WhatsAppBot called on its own                                           *)
(***************************************************************************)
MaxSent == 1

Phones == {"+5531900000001", "+5531900000002"}

Groups == {"turma"}

\* recipients arguments: None, the empty list, lists of contacts and of
\* numbers that are no contact
RecipientLists ==
    {Absent, Some(<<>>), Some(<<"+5531900000001">>), Some(<<"+5531900000009">>),
     Some(<<"+5531900000001", "+5531900000009">>),
     Some(<<"+5531900000002", "+5531900000001">>)}

GroupNames == {Absent} \cup {Some(g) : g \in Groups}

InitBot ==
    /\ contacts = <<>>
    /\ sent_messages = <<>>
    /\ bot_call = [NoBotCall EXCEPT !.members = [g \in Groups |-> {}]]
    /\ added_groups = [g \in Groups |-> {}]

\* bot.add_contact(name, phone, 'professor')
AddContact(phone) ==
    /\ contacts' = add_contact(contacts, phone, "professor")
    /\ UNCHANGED <<sent_messages, bot_call, added_groups>>
    /\ UNCHANGED <<calVars, pipeVars, valVars, verVars, catVars, holVars>>

\* bot.add_group(group_name, members)
AddGroup(group_name, members) ==
    /\ contacts' = add_group(contacts, members)
    /\ added_groups' = [added_groups EXCEPT ![group_name] =
                           @ \cup {members[n] : n \in DOMAIN members}]
    /\ UNCHANGED <<sent_messages, bot_call>>
    /\ UNCHANGED <<calVars, pipeVars, valVars, verVars, catVars, holVars>>

\* bot.send_schedule_update(course, year, recipients)
SendScheduleUpdate(recipients) ==
    /\ Len(sent_messages) < MaxSent
    /\ sent_messages' = sent_messages \o
           Messages(send_schedule_update(ContactPhones(contacts), recipients),
                    "schedule_update")
    /\ bot_call' = [fn |-> "send_schedule_update", recipients |-> recipients,
                    group_name |-> Absent, from |-> Len(sent_messages),
                    contacts |-> ContactPhones(contacts), members |-> added_groups]
    /\ UNCHANGED <<contacts, added_groups>>
    /\ UNCHANGED <<calVars, pipeVars, valVars, verVars, catVars, holVars>>

\* bot.send_weekly_schedule(course, week_info, recipients)
SendWeeklySchedule(recipients) ==
    /\ Len(sent_messages) < MaxSent
    /\ sent_messages' = sent_messages \o
           Messages(send_weekly_schedule(ContactPhones(contacts), recipients),
                    "weekly_schedule")
    /\ bot_call' = [fn |-> "send_weekly_schedule", recipients |-> recipients,
                    group_name |-> Absent, from |-> Len(sent_messages),
                    contacts |-> ContactPhones(contacts), members |-> added_groups]
    /\ UNCHANGED <<contacts, added_groups>>
    /\ UNCHANGED <<calVars, pipeVars, valVars, verVars, catVars, holVars>>

\* bot.send_holiday_alert(holiday_name, date, recipients)
SendHolidayAlert(recipients) ==
    /\ Len(sent_messages) < MaxSent
    /\ sent_messages' = sent_messages \o
           Messages(send_holiday_alert(ContactPhones(contacts), recipients),
                    "holiday_alert")
    /\ bot_call' = [fn |-> "send_holiday_alert", recipients |-> recipients,
                    group_name |-> Absent, from |-> Len(sent_messages),
                    contacts |-> ContactPhones(contacts), members |-> added_groups]
    /\ UNCHANGED <<contacts, added_groups>>
    /\ UNCHANGED <<calVars, pipeVars, valVars, verVars, catVars, holVars>>

\* bot.send_broadcast(message, group_name)
SendBroadcast(group_name) ==
    /\ Len(sent_messages) < MaxSent
    /\ sent_messages' = sent_messages \o
           Messages(send_broadcast(ContactPhones(contacts), group_name),
                    "general_info")
    /\ bot_call' = [fn |-> "send_broadcast", recipients |-> Absent,
                    group_name |-> group_name, from |-> Len(sent_messages),
                    contacts |-> ContactPhones(contacts), members |-> added_groups]
    /\ UNCHANGED <<contacts, added_groups>>
    /\ UNCHANGED <<calVars, pipeVars, valVars, verVars, catVars, holVars>>

BotInit ==
    IdleCalendar /\ IdlePipeline /\ clock = 0 /\ IdleValidate /\ IdleVersions
    /\ IdleCatalog /\ InitBot /\ IdleHolidays

BotNext ==
    \/ \E p \in Phones : AddContact(p)
    \/ \E g \in Groups, p \in Phones : AddGroup(g, <<p>>)
    \/ \E r \in RecipientLists : SendScheduleUpdate(r)
    \/ \E r \in RecipientLists : SendWeeklySchedule(r)
    \/ \E r \in RecipientLists : SendHolidayAlert(r)
    \/ \E g \in GroupNames : SendBroadcast(g)

SpecBot == BotInit /\ [][BotNext]_vars

\* the numbers the last send call sent to, one per message, in order
SentTo ==
    [n \in 1..(Len(sent_messages) - bot_call.from) |->
        sent_messages[bot_call.from + n].to]

(***************************************************************************)
(* C15: a send_schedule_update, send_weekly_schedule or send_holiday_alert *)
(* call with a recipients list sends one message for each entry of the     *)
(* list and none to any other number, the empty list included; with None   *)
(* it sends one message to every contact.                                  *)
(***************************************************************************)
C15_RecipientsListHonoured ==
    bot_call.fn \in {"send_schedule_update", "send_weekly_schedule",
                     "send_holiday_alert"} =>
        IF IsPresent(bot_call.recipients)
        THEN SentTo = Get(bot_call.recipients)
        ELSE SentTo = bot_call.contacts

(***************************************************************************)
(* C16: send_broadcast with a group name sends to exactly the contacts     *)
(* that were added as members of that group; with None, to every contact.  *)
(***************************************************************************)
C16_BroadcastToGroupOnly ==
    bot_call.fn = "send_broadcast" =>
        IF IsPresent(bot_call.group_name)
        THEN SentTo = SelectSeq(bot_call.contacts,
                          LAMBDA p : p \in bot_call.members[Get(bot_call.group_name)])
        ELSE SentTo = bot_call.contacts

(***************************************************************************)
(* C17: a generator call on a catalog whose disciplines require r1..rk     *)
(* sessions (hours in 100-minute sessions, rounded up), with N slot        *)
(* instances (slots of the pattern times the semester's occurrence count), *)
(* books min(N, r1 + ... + rk) slot instances in all, never more than a    *)
(* discipline requires, and each discipline's slots are consecutive.       *)
(***************************************************************************)
C17_GreedyAllocation ==
    IsPresent(gen_out) =>
        LET ds == Get(gen_out).disciplines
            sched == Get(gen_out).schedule
            a == sched.assignments
            required(i) == (ds[i].Hora_aula.value * 60 + 99) \div 100
            RECURSIVE Sum(_)
            Sum(I) == IF I = {} THEN 0
                      ELSE LET i == CHOOSE x \in I : TRUE
                           IN  required(i) + Sum(I \ {i})
            occurrences ==
                IF sched.type = "weekly"
                THEN IF sched.semester = "sem1" THEN WEEKLY_SCHEDULE.semester_1_weeks
                     ELSE WEEKLY_SCHEDULE.semester_2_weeks
                ELSE IF sched.semester = "sem1"
                     THEN BIWEEKLY_SCHEDULE.semester_1_encounters
                     ELSE BIWEEKLY_SCHEDULE.semester_2_encounters
            N == Len(heap[sched.slots]) * occurrences
            total == Sum(DOMAIN ds)
        IN  /\ Len(a) = IF total < N THEN total ELSE N
            /\ \A i \in DOMAIN ds :
                   Cardinality({n \in DOMAIN a : a[n].discipline = ds[i].Disciplina})
                       <= Sum({j \in DOMAIN ds : ds[j].Disciplina = ds[i].Disciplina})
            /\ \A m, n, k \in DOMAIN a :
                   (m < n /\ n < k /\ a[m].discipline = a[k].discipline) =>
                       a[n].discipline = a[m].discipline

C19_OccurrenceCountRespected ==
    \A y \in {start_date.year, end_date.year} : \A wd \in LetiveWeekdays :
        Cardinality({n \in DOMAIN letive_days :
                        letive_days[n].year = y /\ Weekday(letive_days[n]) = wd})
            <= IF wd \in {0, 2}
               THEN WEEKLY_SCHEDULE.semester_1_weeks + WEEKLY_SCHEDULE.semester_2_weeks
               ELSE BIWEEKLY_SCHEDULE.semester_1_encounters
                        + BIWEEKLY_SCHEDULE.semester_2_encounters

(***************************************************************************)
(* C20: when the calendar loads and the catalog file is readable but has   *)
(* no row with a numeric hour field, process returns a result whose        *)
(* discipline_analysis step carries an error and that has no               *)
(* schedule_generation and no conflict_validation step.                    *)
(***************************************************************************)
C20_EmptyCatalogReported ==
    \A i \in DOMAIN runs :
        LET cat == load_disciplines(fs.dist[runs[i].out.course])
        IN  (load_calendar(fs.cal).ok /\ cat.ok /\ cat.disciplines = <<>>) =>
                /\ Returned(i)
                /\ IsPresent(Results(i).steps.discipline_analysis)
                /\ IsPresent(Get(Results(i).steps.discipline_analysis).error)
                /\ ~IsPresent(Results(i).steps.schedule_generation)
                /\ ~IsPresent(Results(i).steps.conflict_validation)

(***************************************************************************)
(* C21: a run whose catalog holds a row with a non-numeric hour field      *)
(* completes, and its validation report holds a warning that names the     *)
(* skipped row.                                                            *)
(***************************************************************************)
C21_DataIssuesWarned ==
    \A i \in DOMAIN runs :
        LET file == fs.dist[runs[i].out.course]
            malformed == {n \in DOMAIN file.rows :
                            /\ ~file.rows[n].Hora_aula.numeric
                            /\ file.rows[n].Disciplina # "Disciplina"}
        IN  (load_calendar(fs.cal).ok /\ file.readable /\ malformed # {}) =>
                /\ Validated(i)
                /\ \A n \in malformed : \E w \in Cohorts :
                       \E x \in DOMAIN Report(i, w).warnings :
                           Report(i, w).warnings[x] =
                               <<"MalformedRow", file.rows[n].Disciplina>>

(***************************************************************************)
(* C22: the teaching days held for the weekly cohort are all Mondays or    *)
(* Wednesdays, and those held for the biweekly cohort are all Fridays or   *)
(* Saturdays.                                                              *)
(***************************************************************************)
C22_WeekdayOfCohortPattern ==
    \A w \in Cohorts : \A n \in DOMAIN TeachingDays(w) :
        Weekday(TeachingDays(w)[n]) \in PatternWeekdays[w]

(***************************************************************************)
(* C26: a result returned by process contains a step only if it contains   *)
(* every earlier step (calendar_validation, discipline_analysis,           *)
(* schedule_generation, conflict_validation), it has export_status only if *)
(* all four steps are present, and after a load failure it contains no     *)
(* later step.                                                             *)
(***************************************************************************)
C26_StepsInOrder ==
    \A i \in DOMAIN runs : Returned(i) =>
        LET st == Results(i).steps
            has == <<IsPresent(st.calendar_validation),
                     IsPresent(st.discipline_analysis),
                     IsPresent(st.schedule_generation),
                     IsPresent(st.conflict_validation)>>
        IN  /\ \A m, n \in 1..4 : (m < n /\ has[n]) => has[m]
            /\ IsPresent(Results(i).export_status) => \A n \in 1..4 : has[n]
            /\ ~load_calendar(fs.cal).ok => (has[1] /\ ~has[2])
            /\ (load_calendar(fs.cal).ok
                    /\ ~load_disciplines(fs.dist[runs[i].out.course]).ok) =>
                   (has[2] /\ ~has[3])

\* one returned run that stopped at the catalog and one that ran all steps
C26_Witness ==
    /\ \E i \in DOMAIN runs :
          /\ Returned(i)
          /\ IsPresent(Results(i).steps.discipline_analysis)
          /\ ~IsPresent(Results(i).steps.schedule_generation)
    /\ \E i \in DOMAIN runs :
          Returned(i) /\ IsPresent(Results(i).export_status)

(***************************************************************************)
(* One VersionManager that is also queried: the caller makes one call at a *)
(* time and uses the value a query returned before its next call           *)
(***************************************************************************)
\* the version numbers a caller asks compare_versions for
VersionNumbers == 0..MaxVersions

\* version_mgr.get_latest_version(course, year)
GetLatestVersion(course, year) ==
    /\ ver_query = NoQuery
    /\ ver_query' = [fn |-> "get_latest_version", course |-> course, year |-> year,
                     result |-> get_latest_version(versions, course, year)]
    /\ UNCHANGED <<calVars, pipeVars, valVars, versions, catVars, botVars, holVars>>

\* version_mgr.compare_versions(course, year, v1, v2)
CompareVersions(course, year, v1, v2) ==
    /\ ver_query = NoQuery
    /\ ver_query' = [fn |-> "compare_versions", course |-> course, year |-> year,
                     v1 |-> v1, v2 |-> v2,
                     result |-> compare_versions(versions, course, year, v1, v2)]
    /\ UNCHANGED <<calVars, pipeVars, valVars, versions, catVars, botVars, holVars>>

\* the caller has taken the returned value
QueryReturned ==
    /\ ver_query # NoQuery
    /\ ver_query' = NoQuery
    /\ UNCHANGED <<calVars, pipeVars, valVars, versions, catVars, botVars, holVars>>

\* the schedule data stored is the same in every version here: no query
\* reads it
VersionQueriesNext ==
    \/ \E c \in Courses, y \in Years, n \in VersionNotes :
          CreateScheduleVersion(c, y, "dataA", n)
    \/ \E c \in Courses, y \in Years : GetLatestVersion(c, y)
    \/ \E c \in Courses, y \in Years, v1, v2 \in VersionNumbers :
          CompareVersions(c, y, v1, v2)
    \/ QueryReturned

SpecVersionQueries == IdleInit /\ [][VersionQueriesNext]_vars

(***************************************************************************)
(* C27: in one VersionManager the versions of a course and year are        *)
(* numbered 1..n in creation order; get_latest_version returns the version *)
(* numbered n, and None when n = 0; compare_versions returns an error      *)
(* whenever one of the two requested numbers is not stored.                *)
(***************************************************************************)
C27_VersionNumbering ==
    /\ \A k \in DOMAIN versions : \A m \in DOMAIN versions[k] :
          /\ versions[k][m].version = m
          /\ m > 1 => versions[k][m - 1].created_at <= versions[k][m].created_at
    /\ ver_query # NoQuery =>
          LET key == VersionKey(ver_query.course, ver_query.year)
              n == IF key \in DOMAIN versions THEN Len(versions[key]) ELSE 0
          IN  /\ ver_query.fn = "get_latest_version" =>
                    IF n = 0 THEN ver_query.result = Absent
                    ELSE /\ IsPresent(ver_query.result)
                         /\ Get(ver_query.result) = versions[key][n]
                         /\ Get(ver_query.result).version = n
              /\ ver_query.fn = "compare_versions" =>
                    ((ver_query.v1 \notin 1..n \/ ver_query.v2 \notin 1..n) =>
                         IsPresent(ver_query.result.error))

\* the latest of at least two stored versions was asked for and returned
C27_Witness ==
    /\ ver_query.fn = "get_latest_version"
    /\ IsPresent(ver_query.result)
    /\ Get(ver_query.result).version >= 2

(***************************************************************************)
(* C28: the capacity table of the generator agrees with the configuration: *)
(* weekly 16 x 4 = 64 and 20 x 4 = 80 hours, biweekly 8 x 12 = 96 and      *)
(* 10 x 12 = 120 hours; and the capacity of a generated schedule is the    *)
(* table entry of its type and semester.                                   *)
(***************************************************************************)
C28_CapacityAgreesWithConfig ==
    LET configured ==
            [weekly |->
                [sem1 |-> WEEKLY_SCHEDULE.semester_1_weeks * WEEKLY_SCHEDULE.hours_per_week,
                 sem2 |-> WEEKLY_SCHEDULE.semester_2_weeks * WEEKLY_SCHEDULE.hours_per_week],
             biweekly |->
                [sem1 |-> BIWEEKLY_SCHEDULE.semester_1_encounters
                             * BIWEEKLY_SCHEDULE.hours_per_biweek,
                 sem2 |-> BIWEEKLY_SCHEDULE.semester_2_encounters
                             * BIWEEKLY_SCHEDULE.hours_per_biweek]]
    IN  /\ capacity = configured
        /\ capacity = [weekly |-> [sem1 |-> 64, sem2 |-> 80],
                       biweekly |-> [sem1 |-> 96, sem2 |-> 120]]
        /\ IsPresent(gen_out) =>
              LET sch == Get(gen_out).schedule
              IN  /\ sch.capacity = capacity[sch.type][sch.semester]
                  /\ sch.capacity = configured[sch.type][sch.semester]

\* a biweekly schedule of the second semester has been generated
C28_Witness ==
    /\ IsPresent(gen_out)
    /\ Get(gen_out).schedule.type = "biweekly"
    /\ Get(gen_out).schedule.semester = "sem2"

(***************************************************************************)
(* C24: the required session count of every loaded discipline is the       *)
(* ceiling of its required hours times 60 over the slot duration in        *)
(* minutes (40 hours at 100 minutes: 24 sessions).                         *)
(***************************************************************************)
C24_RequiredSessionCount ==
    (analyzer.load_ok = Some(TRUE)) =>
        \A n \in DOMAIN Get(analyzer.disciplines) :
            LET d == Get(analyzer.disciplines)[n]
                minutes == d.Hora_aula.value * 60
                slotDurationMinutes == WEEKLY_SLOTS[1].duration
            IN  /\ required_session_count(d).numeric
                /\ required_session_count(d).value =
                       (minutes + slotDurationMinutes - 1) \div slotDurationMinutes

(***************************************************************************)
(* C25: Scenario B.  For a weekly schedule generated for one discipline of *)
(* 40 hours, with the weekly slot pattern of the repository, no holidays   *)
(* and a semester of 8 weeks, exactly 16 slot instances are available and  *)
(* the validation report holds a HourShortfall warning with allocated = 16 *)
(* and required = 24.                                                      *)
(***************************************************************************)
C25_ScenarioB ==
    (/\ IsPresent(gen_out)
     /\ Get(gen_out).schedule.type = "weekly"
     /\ Len(Get(gen_out).disciplines) = 1
     /\ Get(gen_out).disciplines[1].Hora_aula.value = 40) =>
        LET sched == Get(gen_out).schedule
            report == validate_schedule(Some(sched))
            available == 8 * Len(heap[sched.slots])
        IN  /\ available = 16
            /\ \E x \in DOMAIN report.warnings :
                   report.warnings[x] =
                       [kind |-> "HourShortfall", allocated |-> 16, required |-> 24]

(***************************************************************************)
(* C23: a Saturday that is neither a holiday nor an optional holiday is a  *)
(* working day of the calendar (the biweekly cohort teaches on Saturdays): *)
(* get_working_days returns it and get_non_working_days does not.          *)
(***************************************************************************)
C23_SaturdayIsWorkingDay ==
    (hol_call.fn # "none" /\ calendar # <<>>) =>
        LET returned == {hol_out[n] : n \in DOMAIN hol_out}
            days == {dt \in {Date(cal_year, m, d) : m \in 1..12, d \in 1..31} :
                        dt.day <= DaysInMonth(cal_year, dt.month)}
            saturdays == {dt \in days :
                            /\ Weekday(dt) = 5
                            /\ ~is_holiday(dt) /\ ~is_optional_holiday(dt)}
        IN  IF hol_call.fn = "get_working_days"
            THEN \A dt \in saturdays :
                    (DateLeq(hol_call.start, dt) /\ DateLeq(dt, hol_call.end)) =>
                        FullDateKey(dt) \in returned
            ELSE \A dt \in saturdays : FullDateKey(dt) \notin returned

(***************************************************************************)
(* C29: constructing a HolidayManager leaves both tables equal to the      *)
(* built-in defaults when no file is given or the file cannot be read, and *)
(* otherwise equal to what the file gives without its unparsable lines: a  *)
(* line without a date or with an unknown month adds nothing and changes   *)
(* no entry of another line.                                               *)
(***************************************************************************)
C29_HolidayManagerConstruction ==
    hm_loaded =>
        IF ~IsPresent(holidays_file) \/ ~Get(holidays_file).readable
        THEN /\ holidays = DefaultHolidays
             /\ optional_holidays = DefaultOptionalHolidays
        ELSE LET lines == Get(holidays_file).lines
                 parsable(line) ==
                     /\ line.text = "date"
                     /\ Lower(line.month_name) \in DOMAIN months
                 kept == IF lines = <<>> THEN <<>>
                         ELSE <<lines[1]>> \o SelectSeq(Tail(lines), parsable)
                 keys == {TwoDigits(lines[n].day) \o "/"
                            \o TwoDigits(months[Lower(lines[n].month_name)]) :
                          n \in {m \in DOMAIN lines : m > 1 /\ parsable(lines[m])}}
             IN  /\ holidays = load_holidays(HolidayFile(kept)).holidays
                 /\ optional_holidays = load_holidays(HolidayFile(kept)).optional_holidays
                 /\ DOMAIN holidays \cup DOMAIN optional_holidays = keys

\* a file with a line of an unknown month next to a line that was stored
C29_Witness ==
    /\ hm_loaded
    /\ IsPresent(holidays_file)
    /\ Get(holidays_file).readable
    /\ \E n \in DOMAIN Get(holidays_file).lines :
          /\ n > 1
          /\ Get(holidays_file).lines[n].text = "date"
          /\ Lower(Get(holidays_file).lines[n].month_name) \notin DOMAIN months
    /\ DOMAIN holidays # {}

====
